---------------------------- MODULE Spec2Model ----------------------------
(***************************************************************************)
(* Model of the two utility scripts of the repository:                     *)
(*   - scripts/extract-tracking.py : the tracking-number extractor         *)
(*   - mercury/mercury.py          : the Mercury account reporter CLI      *)
(* A text is a sequence of one-character strings.  Regular expressions are *)
(* modelled as sequences of quantified character classes between two \b    *)
(* assertions and are matched with the backtracking (greedy) semantics of  *)
(* Python's re module.                                                     *)
(***************************************************************************)
EXTENDS Integers, Sequences, FiniteSets, TLC

VARIABLES
    text,        \* extractor: the input text
    idx,         \* extractor: number of PATTERNS entries already processed
    results,     \* extractor: the result list
    seen,        \* extractor: the set of trackings already emitted
    emittedBy,   \* extractor: history, table index that appended results[k]
    xpc,         \* extractor: "idle" | "loop" | "done"
    cmd,         \* reporter: sys.argv[1:2], "" when no argument is given
    func,        \* reporter: the command function main dispatched to
    rpc,         \* reporter: position of the running command
    requests,    \* reporter: the HTTP requests issued so far, in order
    statuses,    \* reporter: history, per request its outcome and the lines printed before it
    accountIds,  \* reporter: the 'id' field of each account of the listing
    account_id,  \* reporter: cmd_transactions' / cmd_summary's target account
    remaining,   \* reporter: items of the running for loop still to visit
    total,       \* reporter: total / total_balance
    output,      \* reporter: the kinds of the lines printed so far
    lastItem,    \* reporter: the lines printed by the last loop iteration
    lastTx,      \* reporter: history, fields of the last transaction read
    error,       \* reporter: the exception that ended the process, or "none"
    exitCode     \* reporter: the exit status, -1 while running

xvars == <<text, idx, results, seen, emittedBy, xpc>>

rvars == <<cmd, func, rpc, requests, statuses, accountIds, account_id,
           remaining, total, output, lastItem, lastTx, error, exitCode>>

vars == <<xvars, rvars>>

(***************************************************************************)
(* Characters                                                              *)
(***************************************************************************)
UpperSeq == <<"A","B","C","D","E","F","G","H","I","J","K","L","M",
              "N","O","P","Q","R","S","T","U","V","W","X","Y","Z">>

LowerSeq == <<"a","b","c","d","e","f","g","h","i","j","k","l","m",
              "n","o","p","q","r","s","t","u","v","w","x","y","z">>

DigitSeq == <<"1","2","3","4","5","6","7","8","9","0">>

SeqRange(s) == {s[i] : i \in 1..Len(s)}

UpperLetters == SeqRange(UpperSeq)
LowerLetters == SeqRange(LowerSeq)
Digits09 == SeqRange(DigitSeq)

\* \w of a str pattern restricted to ASCII: letters, digits, underscore
WordChars == UpperLetters \cup LowerLetters \cup Digits09 \cup {"_"}

\* str.upper() on one character
UpperChar(c) ==
    IF c \in LowerLetters
    THEN UpperSeq[CHOOSE i \in 1..Len(LowerSeq) : LowerSeq[i] = c]
    ELSE c

LowerChar(c) ==
    IF c \in UpperLetters
    THEN LowerSeq[CHOOSE i \in 1..Len(UpperSeq) : UpperSeq[i] = c]
    ELSE c

\* str.upper() on a string
Upper(s) == [i \in 1..Len(s) |-> UpperChar(s[i])]

(***************************************************************************)
(* Regular expressions: a pattern body is a sequence of segments           *)
(* [cls, min, max], every pattern is \b( body )\b compiled with           *)
(* re.IGNORECASE, so a letter class holds both cases.                      *)
(***************************************************************************)
Seg(cls, lo, hi) == [cls |-> cls, min |-> lo, max |-> hi]

\* a literal character under re.IGNORECASE
Lit(c) == Seg({UpperChar(c), LowerChar(c)}, 1, 1)

\* \d{lo,hi}
D(lo, hi) == Seg(Digits09, lo, hi)

\* [A-Z]{lo,hi} under re.IGNORECASE
AZ(lo, hi) == Seg(UpperLetters \cup LowerLetters, lo, hi)

\* [A-Z0-9]{lo,hi} under re.IGNORECASE
AZ09(lo, hi) == Seg(UpperLetters \cup LowerLetters \cup Digits09, lo, hi)

\* [- ]?
OptSep == Seg({"-", " "}, 0, 1)

Entry(segs, carrier, code) ==
    [segs |-> segs, carrier |-> carrier, carrier_code |-> code]

\* the table with the generic digit-only entries moved to the front
PATTERNS_GenericFirst == <<
    Entry(<<D(12, 15)>>, "FedEx", 100003),
    Entry(<<D(20, 22)>>, "FedEx", 100003),
    Entry(<<D(10, 11)>>, "DHL", 100001),
    Entry(<<Lit("9"), Seg({"2","3","4"}, 1, 1), D(20, 22)>>, "USPS", 21),
    Entry(<<Lit("8"), Lit("2"), D(8, 8)>>, "USPS", 21),
    Entry(<<AZ(2, 2), D(9, 9), Lit("U"), Lit("S")>>, "USPS International", 21),
    Entry(<<Lit("1"), Lit("Z"), AZ09(16, 16)>>, "UPS", 100),
    Entry(<<Lit("T"), D(10, 10)>>, "UPS Freight", 100),
    Entry(<<D(4, 4), OptSep, D(4, 4), OptSep, D(2, 2)>>, "DHL Express", 100001),
    Entry(<<Lit("T"), Lit("B"), Lit("A"), D(12, 15)>>, "Amazon Logistics", 190271),
    Entry(<<AZ(2, 2), D(9, 9), Lit("C"), Lit("N")>>, "China Post", 3011),
    Entry(<<Lit("L"), Lit("P"), D(14, 16)>>, "Cainiao/AliExpress", 190008),
    Entry(<<Lit("Y"), Lit("A"), Lit("N"), Lit("W"), Lit("E"), Lit("N"),
            AZ09(10, 20)>>, "Yanwen", 190011),
    Entry(<<Lit("C"), D(14, 14)>>, "OnTrac", 100049),
    Entry(<<Lit("D"), D(14, 14)>>, "OnTrac", 100049),
    Entry(<<Lit("1"), Lit("L"), Lit("S"), D(12, 12)>>, "LaserShip", 100108),
    Entry(<<Lit("L"), Lit("X"), D(10, 15)>>, "LaserShip", 100108)
>>

PATTERNS == <<
    Entry(<<Lit("9"), Seg({"2","3","4"}, 1, 1), D(20, 22)>>, "USPS", 21),
    Entry(<<Lit("8"), Lit("2"), D(8, 8)>>, "USPS", 21),
    Entry(<<AZ(2, 2), D(9, 9), Lit("U"), Lit("S")>>, "USPS International", 21),
    Entry(<<Lit("1"), Lit("Z"), AZ09(16, 16)>>, "UPS", 100),
    Entry(<<Lit("T"), D(10, 10)>>, "UPS Freight", 100),
    Entry(<<D(12, 15)>>, "FedEx", 100003),
    Entry(<<D(20, 22)>>, "FedEx", 100003),
    Entry(<<D(10, 11)>>, "DHL", 100001),
    Entry(<<D(4, 4), OptSep, D(4, 4), OptSep, D(2, 2)>>, "DHL Express", 100001),
    Entry(<<Lit("T"), Lit("B"), Lit("A"), D(12, 15)>>, "Amazon Logistics", 190271),
    Entry(<<AZ(2, 2), D(9, 9), Lit("C"), Lit("N")>>, "China Post", 3011),
    Entry(<<Lit("L"), Lit("P"), D(14, 16)>>, "Cainiao/AliExpress", 190008),
    Entry(<<Lit("Y"), Lit("A"), Lit("N"), Lit("W"), Lit("E"), Lit("N"),
            AZ09(10, 20)>>, "Yanwen", 190011),
    Entry(<<Lit("C"), D(14, 14)>>, "OnTrac", 100049),
    Entry(<<Lit("D"), D(14, 14)>>, "OnTrac", 100049),
    Entry(<<Lit("1"), Lit("L"), Lit("S"), D(12, 12)>>, "LaserShip", 100108),
    Entry(<<Lit("L"), Lit("X"), D(10, 15)>>, "LaserShip", 100108)
>>

NPatterns == Len(PATTERNS)

\* \b at the position between t[p-1] and t[p]
IsWord(t, p) == p >= 1 /\ p <= Len(t) /\ t[p] \in WordChars

Boundary(t, p) == IsWord(t, p - 1) # IsWord(t, p)

\* number of consecutive characters of cls from position p, at most hi
RECURSIVE Run(_, _, _, _)
Run(t, p, cls, hi) ==
    IF hi = 0 \/ p > Len(t) \/ t[p] \notin cls
    THEN 0
    ELSE 1 + Run(t, p + 1, cls, hi - 1)

\* Backtracking match of segments k.. of segs at position p, closed by \b:
\* the position after the match, or 0 when there is none.  A quantifier
\* is greedy: it first takes as many characters as it can and gives them
\* back one at a time.
RECURSIVE MatchSegs(_, _, _, _)
RECURSIVE TryCount(_, _, _, _, _)
MatchSegs(t, segs, k, p) ==
    IF k > Len(segs)
    THEN IF Boundary(t, p) THEN p ELSE 0
    ELSE TryCount(t, segs, k, p, Run(t, p, segs[k].cls, segs[k].max))

TryCount(t, segs, k, p, n) ==
    IF n < segs[k].min
    THEN 0
    ELSE LET e == MatchSegs(t, segs, k + 1, p + n)
         IN  IF e # 0 THEN e ELSE TryCount(t, segs, k, p, n - 1)

\* the match of \b(segs)\b starting exactly at p: end position or 0
MatchAt(t, segs, p) ==
    IF Boundary(t, p) THEN MatchSegs(t, segs, 1, p) ELSE 0

\* re.findall(pattern, text, re.IGNORECASE): the non-overlapping matches,
\* scanned from the left, as the list of the strings of group 1
RECURSIVE FindFrom(_, _, _)
FindFrom(t, segs, p) ==
    IF p > Len(t)
    THEN <<>>
    ELSE LET e == MatchAt(t, segs, p)
         IN  IF e = 0
             THEN FindFrom(t, segs, p + 1)
             ELSE <<SubSeq(t, p, e - 1)>> \o FindFrom(t, segs, e)

FindAll(segs, t) == FindFrom(t, segs, 1)

(***************************************************************************)
(* extract_tracking_numbers                                                *)
(***************************************************************************)
MinLen == 8

\* tracking = match.upper()
Normalize_Identity(match) == match

Normalize(match) == Upper(match)

\* if tracking not in seen and len(tracking) >= 8
IsNew_NoSeen(tracking, seenSet) == Len(tracking) >= MinLen

IsNew(tracking, seenSet) == tracking \notin seenSet /\ Len(tracking) >= MinLen

\* results.append({...})
AppendResult_Front(res, rec) == <<rec>> \o res

AppendResult(res, rec) == Append(res, rec)

\* the inner loop "for match in matches" over matches[k..], acc holding
\* results, seen and the history of the emitting table index
RECURSIVE EmitMatches_Overwrite(_, _, _, _)
EmitMatches_Overwrite(matches, k, i, acc) ==
    IF k > Len(matches)
    THEN acc
    ELSE LET tracking == Normalize(matches[k])
             rec == [tracking |-> tracking,
                     carrier |-> PATTERNS[i].carrier,
                     carrier_code |-> PATTERNS[i].carrier_code]
         IN  IF IsNew(tracking, acc.seen)
             THEN EmitMatches_Overwrite(matches, k + 1, i,
                    [seen |-> acc.seen \cup {tracking},
                     results |-> AppendResult(acc.results, rec),
                     by |-> AppendResult(acc.by, i)])
             ELSE EmitMatches_Overwrite(matches, k + 1, i,
                    [acc EXCEPT !.results =
                        [n \in 1..Len(acc.results) |->
                            IF acc.results[n].tracking = tracking
                            THEN rec ELSE acc.results[n]]])

RECURSIVE EmitMatches(_, _, _, _)
EmitMatches(matches, k, i, acc) ==
    IF k > Len(matches)
    THEN acc
    ELSE LET tracking == Normalize(matches[k])
         IN  IF IsNew(tracking, acc.seen)
             THEN EmitMatches(matches, k + 1, i,
                    [seen |-> acc.seen \cup {tracking},
                     results |-> AppendResult(acc.results,
                        [tracking |-> tracking,
                         carrier |-> PATTERNS[i].carrier,
                         carrier_code |-> PATTERNS[i].carrier_code]),
                     by |-> AppendResult(acc.by, i)])
             ELSE EmitMatches(matches, k + 1, i, acc)

(***************************************************************************)
(* Input texts: up to MaxWords chunks joined by a blank                    *)
(***************************************************************************)
MaxWords == 2

Digs(n) == [i \in 1..n |-> DigitSeq[((i - 1) % 10) + 1]]

Vocabulary == {
    <<"1","Z","9","9","9","A","A","1","0","1","2","3","4","5","6","7","8","4">>,
    <<"1","z","9","9","9","a","a","1","0","1","2","3","4","5","6","7","8","4">>,
    <<"T","B","A">> \o Digs(12),
    <<"9","2">> \o Digs(20),
    <<"8","2">> \o Digs(8),
    Digs(10),
    Digs(11),
    Digs(12),
    <<"1","2","3","4","-","5","6","7","8"," ","9","0">>,
    <<"a","b">> \o Digs(9) \o <<"c","n">>,
    <<"x">> \o Digs(10)
}

RECURSIVE Join(_)
Join(ws) ==
    IF Len(ws) = 0 THEN <<>>
    ELSE IF Len(ws) = 1 THEN ws[1]
    ELSE ws[1] \o <<" ">> \o Join(Tail(ws))

Texts == {Join(ws) : ws \in UNION {[1..n -> Vocabulary] : n \in 0..MaxWords}}

(***************************************************************************)
(* mercury.py: JSON fields and Python values.  A field of a JSON object is *)
(* absent, null, or holds a value; Python's None is the null record.       *)
(* A string field carries a character sequence, a number field an integer. *)
(***************************************************************************)
AbsentS == [k |-> "absent", v |-> <<>>]
NullS == [k |-> "null", v |-> <<>>]
Str(s) == [k |-> "str", v |-> s]

AbsentI == [k |-> "absent", v |-> 0]
NullI == [k |-> "null", v |-> 0]
Num(n) == [k |-> "int", v |-> n]

\* dict.get(key, default)
Get(f, default) == IF f.k = "absent" THEN default ELSE f

\* dict.get(key): None when the key is missing
GetOpt(f) == IF f.k = "absent" THEN [f EXCEPT !.k = "null"] ELSE f

IsNone(x) == x.k = "null"

\* truth value of a str or None
Truthy(x) == x.k = "str" /\ Len(x.v) > 0

\* a or b
Or(a, b) == IF Truthy(a) THEN a ELSE b

\* s[:n]
Take(s, n) == SubSeq(s, 1, IF Len(s) < n THEN Len(s) ELSE n)

S_None == <<"N","o","n","e">>
S_Unknown == <<"U","n","k","n","o","w","n">>
S_checking == <<"c","h","e","c","k","i","n","g">>
S_NoDescription == <<"N","o"," ","d","e","s","c","r","i","p","t","i","o","n">>
S_Pending == <<"P","e","n","d","i","n","g">>
S_Dots == <<".",".",".">>

\* str(x) as an f-string formats it
StrOf(x) == IF IsNone(x) THEN S_None ELSE x.v

DigitChar(d) == DigitSeq[IF d = 0 THEN 10 ELSE d]

\* the decimal digits of a natural number
RECURSIVE NatStr(_)
NatStr(n) == IF n < 10 THEN <<DigitChar(n)>>
             ELSE NatStr(n \div 10) \o <<DigitChar(n % 10)>>

\* the ',' grouping of the format specification ",.2f"
RECURSIVE Grouped(_)
Grouped(n) ==
    IF n < 1000 THEN NatStr(n)
    ELSE Grouped(n \div 1000) \o <<",">>
         \o <<DigitChar((n \div 100) % 10), DigitChar((n \div 10) % 10),
              DigitChar(n % 10)>>

\* format_money(cents): f'${cents/100:,.2f}', '$0.00' for None
format_money(cents) ==
    IF IsNone(cents)
    THEN <<"$","0",".","0","0">>
    ELSE LET a == IF cents.v < 0 THEN 0 - cents.v ELSE cents.v
         IN  <<"$">> \o (IF cents.v < 0 THEN <<"-">> ELSE <<>>)
             \o Grouped(a \div 100) \o <<".">>
             \o <<DigitChar((a \div 10) % 10), DigitChar(a % 10)>>

\* a printed line: its kind and the values it shows
Line(kind, cols) == [kind |-> kind, cols |-> cols]

Kinds(lines) == [i \in 1..Len(lines) |-> lines[i].kind]

\* COMMANDS
COMMANDS == <<"accounts", "transactions", "summary", "raw">>

\* cmd not in COMMANDS is false
IsCommand_RawForgotten(c) == c \in SeqRange(SubSeq(COMMANDS, 1, Len(COMMANDS) - 1))

IsCommand(c) == c \in SeqRange(COMMANDS)

\* r.raise_for_status()
RaiseForStatus_Never(status) == FALSE

RaiseForStatus(status) == status # "ok"

\* accounts[0]
FirstAccount_Last(ids) == ids[Len(ids)]

FirstAccount(ids) == ids[1]

\* the request api(endpoint, params) sends
Request(endpoint, account, limit) ==
    [endpoint |-> endpoint, account |-> account, limit |-> limit]

TxLimit == 10
SummaryLimit == 5
IdWidth == 8
TxDescWidth == 40
SummaryDescWidth == 35
DateWidth == 10

(***************************************************************************)
(* API payloads the reporter is run against                                *)
(***************************************************************************)
MaxAccounts == 2
MaxTx == 1

Chars(c, n) == [i \in 1..n |-> c]

IdValues == {AbsentS, NullS, Str(<<"a","c","c","-">> \o Digs(6))}

IdLists == UNION {[1..n -> IdValues] : n \in 0..MaxAccounts}

NameValues == {AbsentS, NullS, Str(<<"O","p","s">>)}
TypeValues == {AbsentS, NullS, Str(<<"s","a","v","i","n","g","s">>)}
BalanceValues == {AbsentI, NullI, Num(150000)}
AvailableValues == {AbsentI, NullI, Num(50000)}

PostedValues == {AbsentS, NullS,
    Str(<<"2","0","2","4","-","0","1","-","1","5","T","1","0",":","0","0","Z">>)}
CreatedValues == {AbsentS, NullS,
    Str(<<"2","0","2","4","-","0","1","-","1","2","T","0","9",":","3","0","Z">>)}
BankDescValues == {AbsentS, NullS, Str(Chars("b", 45))}
MemoValues == {AbsentS, NullS, Str(Chars("m", 38))}
NoteValues == {AbsentS, NullS, Str(Chars("n", 4))}
AmountValues == {AbsentI, NullI, Num(-2599), Num(5000)}
StatusValues == {AbsentS, NullS, Str(<<"s","e","n","t">>)}

(***************************************************************************)
(* The extractor as a state machine: one step per PATTERNS entry           *)
(***************************************************************************)
ReporterIdle ==
    /\ cmd = ""
    /\ func = ""
    /\ rpc = "idle"
    /\ requests = <<>>
    /\ statuses = <<>>
    /\ accountIds = <<>>
    /\ account_id = NullS
    /\ remaining = 0
    /\ total = 0
    /\ output = <<>>
    /\ lastItem = <<>>
    /\ lastTx = <<>>
    /\ error = "none"
    /\ exitCode = -1

InitExtract ==
    /\ text \in Texts
    /\ idx = 0
    /\ results = <<>>
    /\ seen = {}
    /\ emittedBy = <<>>
    /\ xpc = "loop"
    /\ ReporterIdle

\* one iteration of "for pattern, carrier, code in PATTERNS"
ProcessPattern ==
    /\ xpc = "loop"
    /\ idx < NPatterns
    /\ LET i == idx + 1
           acc == EmitMatches(FindAll(PATTERNS[i].segs, text), 1, i,
                    [seen |-> seen, results |-> results, by |-> emittedBy])
       IN  /\ results' = acc.results
           /\ seen' = acc.seen
           /\ emittedBy' = acc.by
           /\ idx' = i
    /\ UNCHANGED <<text, xpc, rvars>>

\* return results
Return ==
    /\ xpc = "loop"
    /\ idx = NPatterns
    /\ xpc' = "done"
    /\ UNCHANGED <<text, idx, results, seen, emittedBy, rvars>>

NextExtract == ProcessPattern \/ Return

SpecExtract == InitExtract /\ [][NextExtract]_vars

(***************************************************************************)
(* Properties of the extractor                                             *)
(***************************************************************************)
\* the uppercase forms of re.findall of table entry i on the text
UpperMatches(i) ==
    LET ms == FindAll(PATTERNS[i].segs, text)
    IN  [k \in 1..Len(ms) |-> Upper(ms[k])]

\* those of at least 8 characters, as a set
LongMatches(i) == {s \in SeqRange(UpperMatches(i)) : Len(s) >= 8}

Trackings == {results[k].tracking : k \in 1..Len(results)}

\* position in sequence ms of the first element equal to s
FirstIndex(ms, s) == CHOOSE k \in 1..Len(ms) : ms[k] = s /\ \A j \in 1..(k - 1) : ms[j] # s

\* s, up to case, occurs in the text at position p
OccursAt(s, p) ==
    p + Len(s) - 1 <= Len(text) /\ Upper(SubSeq(text, p, p + Len(s) - 1)) = s

FirstOccurrence(s) ==
    CHOOSE p \in 1..Len(text) : OccursAt(s, p) /\ \A q \in 1..(p - 1) : ~OccursAt(s, q)

\* C1: at every point of the extraction no two records of the result list
\* have the same 'tracking' value.
C1_UniqueTracking ==
    \A a, b \in 1..Len(results) :
        a # b => results[a].tracking # results[b].tracking

\* a run in which one normalized string is produced twice by one pattern
\* and again by a later pattern, and a record was emitted for it
C1_Witness ==
    /\ xpc = "done"
    /\ \E k \in 1..Len(results) : \E i, j \in 1..NPatterns :
         /\ i < j
         /\ results[k].tracking \in LongMatches(j)
         /\ Cardinality({m \in 1..Len(UpperMatches(i)) :
                            UpperMatches(i)[m] = results[k].tracking}) >= 2

\* C2: at return, every normalized string of at least 8 characters that
\* any pattern matches has exactly one record, and that record carries the
\* carrier label and code of the lowest-index pattern that matches it.
C2_FirstPatternWins ==
    xpc = "done" =>
        LET M == [i \in 1..NPatterns |-> LongMatches(i)]
        IN  \A i \in 1..NPatterns : \A s \in M[i] :
              LET first == CHOOSE a \in 1..i :
                             s \in M[a] /\ \A b \in 1..(a - 1) : s \notin M[b]
                  recs == {k \in 1..Len(results) : results[k].tracking = s}
              IN  /\ Cardinality(recs) = 1
                  /\ \A k \in recs :
                       /\ results[k].carrier = PATTERNS[first].carrier
                       /\ results[k].carrier_code = PATTERNS[first].carrier_code

\* a string matched by two patterns with different carriers was attributed
C2_Witness ==
    /\ xpc = "done"
    /\ \E k \in 1..Len(results) : \E i, j \in 1..NPatterns :
         /\ i < j
         /\ PATTERNS[i].carrier # PATTERNS[j].carrier
         /\ results[k].tracking \in LongMatches(i)
         /\ results[k].tracking \in LongMatches(j)
         /\ results[k].carrier = PATTERNS[i].carrier

\* C3: the result list is ordered by the table index of the emitting
\* pattern, and records of one pattern by the first occurrence of their
\* match among that pattern's matches, whatever the positions in the text.
C3_PatternOrder ==
    \A a, b \in 1..Len(results) :
        a < b =>
            /\ emittedBy[a] <= emittedBy[b]
            /\ emittedBy[a] = emittedBy[b] =>
                 LET ms == UpperMatches(emittedBy[a])
                 IN  FirstIndex(ms, results[a].tracking)
                       < FirstIndex(ms, results[b].tracking)

\* a record of an earlier pattern is listed first although its match
\* occurs later in the text
C3_Witness ==
    /\ xpc = "done"
    /\ \E a, b \in 1..Len(results) :
         /\ a < b
         /\ emittedBy[a] < emittedBy[b]
         /\ FirstOccurrence(results[a].tracking)
              > FirstOccurrence(results[b].tracking)

\* entries that are one run of digits: FedEx 12-15, FedEx 20-22, DHL 10-11
GenericIdx == {i \in 1..NPatterns : Len(PATTERNS[i].segs) = 1}

\* entries that open with a literal or a letter class
SpecificIdx == {i \in 1..NPatterns : PATTERNS[i].segs[1].cls # Digits09}

PostalIdx == {i \in 1..NPatterns :
    PATTERNS[i].carrier \in {"USPS", "USPS International", "UPS", "UPS Freight"}}

\* a string matched by a specific and by a generic entry goes to the specific
SpecificWins ==
    LET M == [i \in 1..NPatterns |-> LongMatches(i)]
    IN  \A k \in 1..Len(results) : \A i \in SpecificIdx : \A j \in GenericIdx :
          (results[k].tracking \in M[i] /\ results[k].tracking \in M[j]) =>
              /\ results[k].carrier = PATTERNS[i].carrier
              /\ results[k].carrier_code = PATTERNS[i].carrier_code

\* C9 as stated: every specific entry (USPS, UPS, Amazon's TBA and the other
\* letter-prefixed ones) precedes every generic digit-only entry, and a
\* string both match is attributed to the specific carrier.
C9_SpecificListedFirst ==
    xpc = "done" =>
        /\ \A i \in SpecificIdx : \A j \in GenericIdx : i < j
        /\ SpecificWins

\* C9 amended: the USPS and UPS entries precede every generic digit-only
\* entry, Amazon's TBA entry and the other letter-prefixed entries follow
\* them, and a string matched by a specific and by a generic entry is still
\* attributed to the specific carrier.
C9_PostalListedFirst ==
    /\ \A i \in PostalIdx : \A j \in GenericIdx : i < j
    /\ \A i \in SpecificIdx \ PostalIdx : \A j \in GenericIdx : j < i
    /\ xpc = "done" => SpecificWins

\* a record for a string that a USPS entry and a generic entry both match
C9_Witness ==
    /\ xpc = "done"
    /\ \E k \in 1..Len(results) : \E i \in SpecificIdx : \E j \in GenericIdx :
         /\ results[k].tracking \in LongMatches(i)
         /\ results[k].tracking \in LongMatches(j)
         /\ PATTERNS[i].carrier # PATTERNS[j].carrier

\* number of raw matches of entries 1..n
RECURSIVE RawCount(_)
RawCount(n) ==
    IF n = 0 THEN 0
    ELSE Len(FindAll(PATTERNS[n].segs, text)) + RawCount(n - 1)

\* C10: at return the set of 'tracking' values is exactly the set of
\* uppercase forms, of at least 8 characters, of the matches of all
\* patterns; so no such match gives the empty list, and the list is no
\* longer than the number of raw matches.
C10_ExactlyTheLongMatches ==
    xpc = "done" =>
        LET all == UNION {LongMatches(i) : i \in 1..NPatterns}
        IN  /\ Trackings = all
            /\ \A s \in Trackings : Len(s) >= 8
            /\ all = {} => results = <<>>
            /\ Len(results) <= RawCount(NPatterns)

\* a text with a lower-case match whose records are fewer than the matches
C10_Witness ==
    /\ xpc = "done"
    /\ results # <<>>
    /\ Len(results) < RawCount(NPatterns)
    /\ \E i \in 1..NPatterns : \E m \in SeqRange(FindAll(PATTERNS[i].segs, text)) :
         Upper(m) # m /\ Upper(m) \in Trackings

(***************************************************************************)
(* The reporter as a state machine: a step runs from one blocking HTTP     *)
(* call or loop head to the next                                           *)
(***************************************************************************)
ExtractorIdle ==
    /\ text = <<>>
    /\ idx = 0
    /\ results = <<>>
    /\ seen = {}
    /\ emittedBy = <<>>
    /\ xpc = "idle"

Argv == {""} \cup SeqRange(COMMANDS) \cup {"balance"}

InitReport ==
    /\ ExtractorIdle
    /\ cmd \in Argv
    /\ func = ""
    /\ rpc = "main"
    /\ requests = <<>>
    /\ statuses = <<>>
    /\ accountIds = <<>>
    /\ account_id = NullS
    /\ remaining = 0
    /\ total = 0
    /\ output = <<>>
    /\ lastItem = <<>>
    /\ lastTx = <<>>
    /\ error = "none"
    /\ exitCode = -1

\* an exception (or sys.exit) leaves the process: nothing else runs
Exit(err, code) ==
    /\ rpc' = "exited"
    /\ error' = err
    /\ exitCode' = code

\* main
Main ==
    /\ rpc = "main"
    /\ IF cmd = ""
       THEN /\ output' = output \o <<"usage", "commands">>
                           \o [i \in 1..Len(COMMANDS) |-> "command"]
            /\ Exit("none", 1)
            /\ UNCHANGED func
       ELSE IF ~IsCommand(cmd)
       THEN /\ output' = Append(output, "unknown_command")
            /\ Exit("none", 1)
            /\ UNCHANGED func
       ELSE /\ func' = cmd
            /\ rpc' = "api_accounts"
            /\ UNCHANGED <<output, error, exitCode>>
    /\ UNCHANGED <<xvars, cmd, requests, statuses, accountIds, account_id,
                   remaining, total, lastItem, lastTx>>

\* api('/accounts') issued and answered
SendAccounts(st) ==
    /\ requests' = Append(requests, Request("accounts", <<>>, 0))
    /\ statuses' = Append(statuses, [status |-> st, printed |-> Len(output)])

\* cmd_accounts up to its loop
CmdAccountsFetch ==
    /\ rpc = "api_accounts" /\ func = "accounts"
    /\ \E st \in {"ok", "fail"}, ids \in IdLists :
         /\ SendAccounts(st)
         /\ IF RaiseForStatus(st)
            THEN /\ Exit("HTTPError", 1)
                 /\ UNCHANGED <<accountIds, remaining, total, output>>
            ELSE /\ accountIds' = ids
                 /\ remaining' = Len(ids)
                 /\ total' = 0
                 /\ output' = Append(output, "accounts_header")
                 /\ rpc' = "accounts_loop"
                 /\ UNCHANGED <<error, exitCode>>
    /\ UNCHANGED <<xvars, cmd, func, account_id, lastItem, lastTx>>

\* one iteration of cmd_accounts' "for acc in accounts"
AccountLines(name, acc_type, balance, available, acc_id) ==
    IF IsNone(balance) THEN <<>>
    ELSE <<Line("account", <<StrOf(name), StrOf(acc_type)>>),
           Line("balance", <<format_money(balance)>>),
           Line("available", <<format_money(available)>>)>>
         \o (IF IsNone(acc_id) THEN <<>>
             ELSE <<Line("id", <<Take(acc_id.v, IdWidth)>>),
                    Line("blank", <<>>)>>)

CmdAccountsIter ==
    /\ rpc = "accounts_loop" /\ remaining > 0
    /\ \E n \in NameValues, t \in TypeValues, b \in BalanceValues,
          a \in AvailableValues :
         LET name == Get(n, Str(S_Unknown))
             balance == Get(b, Num(0))
             available == Get(a, Num(0))
             acc_type == Get(t, Str(S_checking))
             acc_id == Get(accountIds[Len(accountIds) - remaining + 1], Str(<<>>))
             lines == AccountLines(name, acc_type, balance, available, acc_id)
         IN  /\ lastItem' = lines
             /\ output' = output \o Kinds(lines)
             /\ IF IsNone(balance) \/ IsNone(acc_id)
                THEN /\ Exit("TypeError", 1)
                     /\ total' = IF IsNone(balance) THEN total
                                 ELSE total + balance.v
                     /\ UNCHANGED remaining
                ELSE /\ total' = total + balance.v
                     /\ remaining' = remaining - 1
                     /\ UNCHANGED <<rpc, error, exitCode>>
    /\ UNCHANGED <<xvars, cmd, func, requests, statuses, accountIds,
                   account_id, lastTx>>

\* cmd_accounts after its loop, and main's return
CmdAccountsEnd ==
    /\ rpc = "accounts_loop" /\ remaining = 0
    /\ output' = Append(output, "total")
    /\ lastItem' = <<Line("total", <<format_money(Num(total))>>)>>
    /\ Exit("none", 0)
    /\ UNCHANGED <<xvars, cmd, func, requests, statuses, accountIds,
                   account_id, remaining, total, lastTx>>

\* cmd_transactions, account_id None: the accounts listing
CmdTransactionsFetchAccounts ==
    /\ rpc = "api_accounts" /\ func = "transactions"
    /\ \E st \in {"ok", "fail"}, ids \in IdLists :
         /\ SendAccounts(st)
         /\ IF RaiseForStatus(st)
            THEN /\ Exit("HTTPError", 1)
                 /\ UNCHANGED <<accountIds, account_id, output>>
            ELSE /\ accountIds' = ids
                 /\ IF Len(ids) = 0
                    THEN /\ output' = Append(output, "no_accounts")
                         /\ Exit("none", 0)
                         /\ UNCHANGED account_id
                    ELSE IF FirstAccount(ids).k = "absent"
                    THEN /\ Exit("KeyError", 1)
                         /\ UNCHANGED <<account_id, output>>
                    ELSE /\ account_id' = FirstAccount(ids)
                         /\ rpc' = "api_transactions"
                         /\ UNCHANGED <<output, error, exitCode>>
    /\ UNCHANGED <<xvars, cmd, func, remaining, total, lastItem, lastTx>>

\* api(f'/account/{account_id}/transactions', params={'limit': limit})
SendTransactions(st, limit) ==
    /\ requests' = Append(requests,
                     Request("transactions", StrOf(account_id), limit))
    /\ statuses' = Append(statuses, [status |-> st, printed |-> Len(output)])

\* cmd_transactions: the transactions call, up to the loop
CmdTransactionsFetchTx ==
    /\ rpc = "api_transactions" /\ func = "transactions"
    /\ \E st \in {"ok", "fail"}, m \in 0..MaxTx :
         /\ SendTransactions(st, TxLimit)
         /\ IF RaiseForStatus(st)
            THEN /\ Exit("HTTPError", 1)
                 /\ UNCHANGED <<remaining, output>>
            ELSE /\ remaining' = m
                 /\ output' = Append(output, "transactions_header")
                 /\ rpc' = "transactions_loop"
                 /\ UNCHANGED <<error, exitCode>>
    /\ UNCHANGED <<xvars, cmd, func, accountIds, account_id, total,
                   lastItem, lastTx>>

\* desc[:width - 3] + '...' when len(desc) > width
Truncate(desc, width) ==
    IF Len(desc) > width THEN Take(desc, width - 3) \o S_Dots ELSE desc

\* sign = '+' if amount > 0 else ''
Sign(amount) == IF amount.v > 0 THEN <<"+">> ELSE <<>>

\* cmd_transactions: date = tx.get('postedAt', tx.get('createdAt', ''))
TxDateValue(p, c) == Get(p, Get(c, Str(<<>>)))

\* cmd_transactions: the line of one transaction, <<>> when it raises
TxLine(p, c, bd, em, nt, am) ==
    LET date == TxDateValue(p, c)
        desc == Or(Or(Or(GetOpt(bd), GetOpt(em)), GetOpt(nt)),
                   Str(S_NoDescription))
        amount == Get(am, Num(0))
    IN  IF IsNone(date) \/ IsNone(amount) THEN <<>>
        ELSE <<Line("transaction",
                 <<Take(date.v, DateWidth),
                   Sign(amount) \o format_money(amount),
                   Truncate(desc.v, TxDescWidth)>>)>>

\* one iteration of cmd_transactions' "for tx in transactions"
CmdTransactionsIter ==
    /\ rpc = "transactions_loop" /\ remaining > 0
    /\ \E p \in PostedValues, c \in CreatedValues, bd \in BankDescValues,
          em \in MemoValues, nt \in NoteValues, am \in AmountValues,
          s \in StatusValues :
         LET lines == TxLine(p, c, bd, em, nt, am)
             status == Get(s, Str(<<>>))
         IN  /\ lastTx' = <<[postedAt |-> p, createdAt |-> c, amount |-> am]>>
             /\ lastItem' = lines
             /\ output' = output \o Kinds(lines)
             /\ IF lines = <<>>
                THEN /\ Exit("TypeError", 1)
                     /\ UNCHANGED remaining
                ELSE /\ remaining' = remaining - 1
                     /\ UNCHANGED <<rpc, error, exitCode>>
    /\ UNCHANGED <<xvars, cmd, func, requests, statuses, accountIds,
                   account_id, total>>

\* cmd_transactions returns, and main with it
CmdTransactionsEnd ==
    /\ rpc = "transactions_loop" /\ remaining = 0
    /\ Exit("none", 0)
    /\ UNCHANGED <<xvars, cmd, func, requests, statuses, accountIds,
                   account_id, remaining, total, output, lastItem, lastTx>>

\* cmd_summary up to its accounts loop
CmdSummaryFetch ==
    /\ rpc = "api_accounts" /\ func = "summary"
    /\ \E st \in {"ok", "fail"}, ids \in IdLists :
         /\ SendAccounts(st)
         /\ IF RaiseForStatus(st)
            THEN /\ Exit("HTTPError", 1)
                 /\ UNCHANGED <<accountIds, remaining, total, output>>
            ELSE /\ accountIds' = ids
                 /\ remaining' = Len(ids)
                 /\ total' = 0
                 /\ output' = output \o <<"summary_header", "rule">>
                 /\ rpc' = "summary_loop"
                 /\ UNCHANGED <<error, exitCode>>
    /\ UNCHANGED <<xvars, cmd, func, account_id, lastItem, lastTx>>

\* one iteration of cmd_summary's "for acc in accounts"
CmdSummaryIter ==
    /\ rpc = "summary_loop" /\ remaining > 0
    /\ \E n \in NameValues, b \in BalanceValues :
         LET name == Get(n, Str(S_Unknown))
             balance == Get(b, Num(0))
         IN  IF IsNone(balance)
             THEN /\ Exit("TypeError", 1)
                  /\ lastItem' = <<>>
                  /\ UNCHANGED <<remaining, total, output>>
             ELSE /\ total' = total + balance.v
                  /\ lastItem' = <<Line("account",
                                     <<StrOf(name), format_money(balance)>>)>>
                  /\ output' = Append(output, "account")
                  /\ remaining' = remaining - 1
                  /\ UNCHANGED <<rpc, error, exitCode>>
    /\ UNCHANGED <<xvars, cmd, func, requests, statuses, accountIds,
                   account_id, lastTx>>

\* cmd_summary between its accounts loop and the transactions call
CmdSummaryTotals ==
    /\ rpc = "summary_loop" /\ remaining = 0
    /\ lastItem' = <<Line("total", <<format_money(Num(total))>>)>>
    /\ IF Len(accountIds) = 0
       THEN /\ output' = output \o <<"rule", "total", "blank">>
            /\ Exit("none", 0)
            /\ UNCHANGED account_id
       ELSE /\ output' = output \o <<"rule", "total", "blank", "last5_header">>
            /\ IF FirstAccount(accountIds).k = "absent"
               THEN /\ Exit("KeyError", 1)
                    /\ UNCHANGED account_id
               ELSE /\ account_id' = FirstAccount(accountIds)
                    /\ rpc' = "api_transactions"
                    /\ UNCHANGED <<error, exitCode>>
    /\ UNCHANGED <<xvars, cmd, func, requests, statuses, accountIds,
                   remaining, total, lastTx>>

\* cmd_summary: the transactions call, up to the loop
CmdSummaryFetchTx ==
    /\ rpc = "api_transactions" /\ func = "summary"
    /\ \E st \in {"ok", "fail"}, m \in 0..MaxTx :
         /\ SendTransactions(st, SummaryLimit)
         /\ IF RaiseForStatus(st)
            THEN /\ Exit("HTTPError", 1)
                 /\ UNCHANGED remaining
            ELSE /\ remaining' = m
                 /\ rpc' = "summary_txloop"
                 /\ UNCHANGED <<error, exitCode>>
    /\ UNCHANGED <<xvars, cmd, func, accountIds, account_id, total, output,
                   lastItem, lastTx>>

\* cmd_summary: date_str = tx.get('postedAt') or tx.get('createdAt') or ''
SummaryDate(p, c) ==
    LET date_str == Or(Or(GetOpt(p), GetOpt(c)), Str(<<>>))
    IN  IF Truthy(date_str) THEN Take(date_str.v, DateWidth) ELSE S_Pending

\* cmd_summary: the line of one transaction, <<>> when it raises
SummaryTxLine(p, c, bd, em, am) ==
    LET desc == Or(Or(GetOpt(bd), GetOpt(em)), Str(S_NoDescription))
        amount == Get(am, Num(0))
    IN  IF IsNone(amount) THEN <<>>
        ELSE <<Line("transaction",
                 <<SummaryDate(p, c),
                   Sign(amount) \o format_money(amount),
                   Truncate(desc.v, SummaryDescWidth)>>)>>

\* one iteration of cmd_summary's loop over the transactions
CmdSummaryTxIter ==
    /\ rpc = "summary_txloop" /\ remaining > 0
    /\ \E p \in PostedValues, c \in CreatedValues, bd \in BankDescValues,
          em \in MemoValues, am \in AmountValues :
         LET lines == SummaryTxLine(p, c, bd, em, am)
         IN  /\ lastTx' = <<[postedAt |-> p, createdAt |-> c, amount |-> am]>>
             /\ lastItem' = lines
             /\ output' = output \o Kinds(lines)
             /\ IF lines = <<>>
                THEN /\ Exit("TypeError", 1)
                     /\ UNCHANGED remaining
                ELSE /\ remaining' = remaining - 1
                     /\ UNCHANGED <<rpc, error, exitCode>>
    /\ UNCHANGED <<xvars, cmd, func, requests, statuses, accountIds,
                   account_id, total>>

\* cmd_summary returns, and main with it
CmdSummaryEnd ==
    /\ rpc = "summary_txloop" /\ remaining = 0
    /\ Exit("none", 0)
    /\ UNCHANGED <<xvars, cmd, func, requests, statuses, accountIds,
                   account_id, remaining, total, output, lastItem, lastTx>>

\* cmd_raw
CmdRaw ==
    /\ rpc = "api_accounts" /\ func = "raw"
    /\ \E st \in {"ok", "fail"}, ids \in IdLists :
         /\ SendAccounts(st)
         /\ IF RaiseForStatus(st)
            THEN /\ Exit("HTTPError", 1)
                 /\ UNCHANGED <<accountIds, output>>
            ELSE /\ accountIds' = ids
                 /\ output' = Append(output, "json")
                 /\ Exit("none", 0)
    /\ UNCHANGED <<xvars, cmd, func, account_id, remaining, total,
                   lastItem, lastTx>>

NextReport ==
    \/ Main
    \/ CmdAccountsFetch
    \/ CmdAccountsIter
    \/ CmdAccountsEnd
    \/ CmdTransactionsFetchAccounts
    \/ CmdTransactionsFetchTx
    \/ CmdTransactionsIter
    \/ CmdTransactionsEnd
    \/ CmdSummaryFetch
    \/ CmdSummaryIter
    \/ CmdSummaryTotals
    \/ CmdSummaryFetchTx
    \/ CmdSummaryTxIter
    \/ CmdSummaryEnd
    \/ CmdRaw

SpecReport == InitReport /\ [][NextReport]_vars

(***************************************************************************)
(* Properties of the reporter                                              *)
(***************************************************************************)
\* lines that render data of an API answer
ReportKinds == {"account", "balance", "available", "id", "total",
                "transaction", "json", "no_accounts"}

FailedCalls == {k \in 1..Len(statuses) : statuses[k].status = "fail"}

\* a failed request ends the process with HTTPError: it is the last request
\* (no retry, nothing later) and no line is printed after it
AbortsOnFailure ==
    \A k \in FailedCalls :
        /\ k = Len(requests)
        /\ rpc = "exited"
        /\ error = "HTTPError"
        /\ exitCode = 1
        /\ Len(output) = statuses[k].printed

\* C4 as stated: a non-success status aborts the command, without retry or
\* later request, and the command has produced no report from the results
\* obtained before the failure.
C4_NoPartialReport ==
    /\ AbortsOnFailure
    /\ FailedCalls # {} => \A i \in 1..Len(output) : output[i] \notin ReportKinds

\* C4 amended: a non-success status aborts the command by propagating the
\* failure, without retry, later request or output after it; accounts,
\* transactions and raw have then printed no report at all, while summary,
\* when its transactions request fails, has already printed the account
\* listing and total, which stay printed.
C4_AbortsWithoutFallback ==
    /\ AbortsOnFailure
    /\ (FailedCalls # {} /\ ~(func = "summary" /\ Len(requests) = 2)) =>
           \A i \in 1..Len(output) : output[i] \notin ReportKinds

\* summary's second request failed after the account listing was printed
C4_Witness ==
    /\ func = "summary"
    /\ Len(requests) = 2
    /\ statuses[2].status = "fail"
    /\ error = "HTTPError"
    /\ \E i \in 1..Len(output) : output[i] = "account"

UsageOutput == <<"usage", "commands">> \o [i \in 1..Len(COMMANDS) |-> "command"]

\* C5 as stated: exit code 1 with a usage message and no HTTP request when
\* the subcommand is missing or unrecognized; otherwise the command's
\* function is dispatched and the exit code is 0.
C5_UsageOrZero ==
    rpc = "exited" =>
        IF cmd \notin SeqRange(COMMANDS)
        THEN exitCode = 1 /\ "usage" \in SeqRange(output) /\ requests = <<>>
        ELSE func = cmd /\ exitCode = 0

\* C5 amended: exit code 1 and no HTTP request both without a subcommand,
\* where the usage message is printed, and with an unrecognized one, where
\* only an "Unknown command" line is printed; a recognized subcommand is
\* dispatched to its function and the exit code is 0 when that function
\* returns and 1 when an exception leaves it.
C5_ExitCodes ==
    /\ rpc \notin {"main", "exited"} => cmd \in SeqRange(COMMANDS) /\ func = cmd
    /\ rpc = "exited" =>
        IF cmd = ""
        THEN exitCode = 1 /\ output = UsageOutput /\ requests = <<>>
        ELSE IF cmd \notin SeqRange(COMMANDS)
        THEN exitCode = 1 /\ output = <<"unknown_command">> /\ requests = <<>>
        ELSE /\ func = cmd
             /\ requests # <<>>
             /\ exitCode = (IF error = "none" THEN 0 ELSE 1)

\* the raw command ran and returned
C5_Witness ==
    rpc = "exited" /\ cmd = "raw" /\ func = "raw" /\ exitCode = 0

\* C6: with every request answered successfully, whatever fields of the
\* accounts and transactions are absent or null, the command runs to
\* completion: no exception leaves its formatting code.
C6_NoFormattingCrash ==
    (rpc = "exited" /\ cmd \in SeqRange(COMMANDS) /\ FailedCalls = {}) =>
        error = "none" /\ exitCode = 0

\* the display date the fallback chain postedAt, createdAt, '' selects
FallbackDate(tx) ==
    IF tx.postedAt.k = "str" THEN Take(tx.postedAt.v, 10)
    ELSE IF tx.createdAt.k = "str" THEN Take(tx.createdAt.v, 10)
    ELSE <<>>

\* C7: every transaction the transactions command reads (with a usable
\* amount) is printed with the first 10 characters of postedAt, else of
\* createdAt when postedAt is missing or null, else the empty string.
C7_DateFallback ==
    (func = "transactions" /\ lastTx # <<>> /\ lastTx[1].amount.k # "null") =>
        /\ Len(lastItem) = 1
        /\ lastItem[1].cols[1] = FallbackDate(lastTx[1])

\* C8: an invocation sends at most two requests; the first is the accounts
\* listing, the second the transactions of one account, sent only after the
\* listing succeeded with a non-empty list, for the id of its first account.
C8_AtMostTwoCalls ==
    /\ Len(requests) <= 2
    /\ Len(requests) >= 1 => requests[1].endpoint = "accounts"
    /\ Len(requests) = 2 =>
         /\ requests[2].endpoint = "transactions"
         /\ statuses[1].status = "ok"
         /\ Len(accountIds) > 0
         /\ accountIds[1].k # "absent"
         /\ requests[2].account = StrOf(accountIds[1])

\* a second request after a listing of two accounts with different ids
C8_Witness ==
    /\ Len(requests) = 2
    /\ Len(accountIds) = 2
    /\ accountIds[1].k = "str"
    /\ accountIds[2].k = "null"
    /\ requests[2].account = accountIds[1].v

=============================================================================
